---- MODULE Spec2Model ----
(***************************************************************************)
(* Energy Monitor (src/energy_app.py): one top-to-bottom run of the        *)
(* Streamlit script.  A table is obtained (generated sample or uploaded    *)
(* file), validated, annotated with the peak flag and the recommendation,  *)
(* rendered, priced, and offered for download.                             *)
(*                                                                         *)
(* Units.  Consumption is an integer number of 1/KwhScale kWh.  A tariff   *)
(* is an integer number of 1/100 currency per kWh, the widget step 0.1     *)
(* being TarStep units, so that tarif * 0.8 is again an integer.  Costs    *)
(* are integers in 1/(KwhScale*100) currency: the arithmetic of the script *)
(* is carried out exactly.  A percentage is a reduced fraction <<n, d>>.   *)
(*                                                                         *)
(* Column names: "Hour" is the hour column, "Kwh" the consumption column,  *)
(* "Peak" the peak flag column, "Rec" the recommendation column.           *)
(***************************************************************************)
EXTENDS Integers, Sequences, FiniteSets, TLC

\* ------------------------------------------------------------------ bounds
MaxRows == 3
MaxTarifSteps == 2
KwhScale == 100

\* --------------------------------------------------------------- constants
TarStep == 10
MinTarif == 0
DefaultTarif == 650
NightNum == 8
NightDen == 10
THRESHOLD == 6 * KwhScale
AdviceText == "shift load to night"
required_cols == {"Hour", "Kwh"}

\* ----------------------------------------------------------------- helpers
RECURSIVE SumSeq(_)
SumSeq(s) == IF s = <<>> THEN 0 ELSE Head(s) + SumSeq(Tail(s))

\* s restricted to the positions where mask is TRUE, order kept (df.loc[mask, col])
RECURSIVE Loc(_, _)
Loc(mask, s) ==
    IF s = <<>> THEN <<>>
    ELSE (IF Head(mask) THEN <<Head(s)>> ELSE <<>>) \o Loc(Tail(mask), Tail(s))

RECURSIVE Gcd(_, _)
Gcd(a, b) == IF b = 0 THEN a ELSE Gcd(b, a % b)

Abs(x) == IF x < 0 THEN -x ELSE x

\* the quotient n/d (d > 0) as a reduced fraction
Frac(n, d) ==
    LET g == Gcd(Abs(n), d) IN <<n \div g, d \div g>>

\* variant: the assignment keeps only the required columns and the new one
AssignProjected(t, col, values) ==
    [c \in (DOMAIN t \cap {"Hour", "Kwh", "Peak"}) \cup {col} |->
        IF c = col THEN values ELSE t[c]]

\* df[col] = values: the column is added, or overwritten when present
Assign(t, col, values) ==
    [c \in DOMAIN t \cup {col} |-> IF c = col THEN values ELSE t[c]]

NoColumns == [c \in {} |-> <<>>]

\* ------------------------------------------------------ sample generator
Seed42 ==
    << 3745, 9507, 7319, 5986, 1560, 1559, 580, 8661, 6011, 7080, 205, 9699,
       8324, 2123, 1818, 1834, 3042, 5247, 4319, 2912, 6118, 1394, 2921, 3663 >>

Uniform(lo, hi, u) == lo + ((hi - lo) * u) \div 10000

Tenths(x) == (x * KwhScale) \div 10

generate_sample_df ==
    [c \in required_cols |->
        IF c = "Hour"
        THEN [i \in 1..24 |-> i - 1]
        ELSE [i \in 1..24 |->
                LET h == i - 1 IN
                IF h < 6 \/ h > 22 THEN Uniform(Tenths(15), Tenths(25), Seed42[i])
                ELSE IF 6 <= h /\ h < 17
                     THEN Uniform(Tenths(30), Tenths(45), Seed42[i])
                     ELSE Uniform(Tenths(60), Tenths(85), Seed42[i])]]

\* --------------------------------------------------------- uploaded files
Hours == {8, 18}
KwhValues == {-KwhScale, 0, THRESHOLD, THRESHOLD + 1}
OtherCols == {"Peak", "Note"}
ColSets ==
    (SUBSET required_cols)
        \cup {required_cols \cup {c} : c \in OtherCols}
        \cup {{"Hour", "Peak"}}

FileTable(cols, hours, kwh) ==
    [c \in cols |->
        CASE c = "Hour" -> hours
          [] c = "Kwh"  -> kwh
          [] c = "Peak" -> [i \in DOMAIN hours |-> TRUE]
          [] OTHER      -> [i \in DOMAIN hours |-> "n"]]

Tables ==
    UNION {
        { FileTable(cols, hours, kwh) :
            cols \in ColSets, hours \in [1..n -> Hours], kwh \in [1..n -> KwhValues] }
        : n \in 0..MaxRows }

FileNames == {"data.csv", "data.xlsx"}
Tariffs == {MinTarif + k * TarStep : k \in 0..MaxTarifSteps} \cup {DefaultTarif}

\* -------------------------------------------------------------------- state
VARIABLES
    pc,         \* position of the script run
    uploaded,   \* the file uploader's value: "none" or a file name
    readable,   \* whether the reader parses the uploaded bytes
    content,    \* the table the reader parses them into
    button,     \* whether the generate button was pressed
    tarif,      \* the tariff input's value
    df,         \* the data frame: column name -> column of values
    page,       \* the elements written to the page so far
    shown,      \* the table rendered by st.dataframe (none or one)
    peaks,      \* the peak hour list (none or one)
    summary,    \* the savings figures (none or one)
    export      \* the table serialised for download (none or one)

vars == <<pc, uploaded, readable, content, button, tarif, df, page, shown,
          peaks, summary, export>>

inputs == <<uploaded, readable, content, button, tarif>>

Init ==
    /\ pc = "load"
    /\ uploaded \in {"none"} \cup FileNames
    /\ readable \in BOOLEAN
    /\ content \in Tables
    /\ button \in BOOLEAN
    /\ tarif \in Tariffs
    /\ uploaded = "none" => ~readable
    /\ uploaded # "none" => ~button
    /\ ~readable => content = NoColumns
    /\ df = NoColumns
    /\ page = {}
    /\ shown = {}
    /\ peaks = {}
    /\ summary = {}
    /\ export = {}

\* ------------------------------------------------------------------ loading
endswith_csv(name) == name = "data.csv"

read_csv(t) == t
read_excel(t) == t

load_file(name, t) == IF endswith_csv(name) THEN read_csv(t) ELSE read_excel(t)

\* the table the run analyses, as the generator or the reader returned it
Source == IF uploaded = "none" THEN generate_sample_df ELSE load_file(uploaded, content)

\* lines 47-50: no file, button not pressed
NoFile ==
    /\ pc = "load" /\ uploaded = "none" /\ ~button
    /\ page' = page \cup {"info"}
    /\ pc' = "stopped"
    /\ UNCHANGED <<inputs, df, shown, peaks, summary, export>>

\* lines 47-51: no file, button pressed
Generate ==
    /\ pc = "load" /\ uploaded = "none" /\ button
    /\ page' = page \cup {"info"}
    /\ df' = generate_sample_df
    /\ pc' = "validate"
    /\ UNCHANGED <<inputs, shown, peaks, summary, export>>

\* lines 52-54: the reader succeeds
LoadFile ==
    /\ pc = "load" /\ uploaded # "none" /\ readable
    /\ df' = load_file(uploaded, content)
    /\ pc' = "validate"
    /\ UNCHANGED <<inputs, page, shown, peaks, summary, export>>

\* lines 55-57: the reader raises
LoadError ==
    /\ pc = "load" /\ uploaded # "none" /\ ~readable
    /\ page' = page \cup {"load_error"}
    /\ pc' = "stopped"
    /\ UNCHANGED <<inputs, df, shown, peaks, summary, export>>

\* --------------------------------------------------------------- validation
\* variant: one required column is enough
HasAnyRequired(t) == required_cols \cap DOMAIN t # {}

HasRequired(t) == required_cols \subseteq DOMAIN t

Validate ==
    /\ pc = "validate"
    /\ IF ~HasRequired(df)
       THEN /\ page' = page \cup {"schema_error"}
            /\ pc' = "stopped"
       ELSE /\ page' = page
            /\ pc' = "analyze"
    /\ UNCHANGED <<inputs, df, shown, peaks, summary, export>>

\* ----------------------------------------------------------------- analysis
\* variant: the threshold itself counts as a peak
IsPeakAtThreshold(kwh) == kwh >= THRESHOLD

IsPeak(kwh) == kwh > THRESHOLD

PeakColumn(t) == [i \in DOMAIN t.Kwh |-> IsPeak(t.Kwh[i])]

\* variant: the two np.where branches swapped
RecommendationSwapped(flag) == IF flag THEN "" ELSE AdviceText

Recommendation(flag) == IF flag THEN AdviceText ELSE ""

RecColumn(t) == [i \in DOMAIN t.Peak |-> Recommendation(t.Peak[i])]

\* variant: the recommendation column is not written
AnnotatePeakOnly(t) == Assign(t, "Peak", PeakColumn(t))

Annotate(t) ==
    LET t1 == Assign(t, "Peak", PeakColumn(t))
    IN  Assign(t1, "Rec", RecColumn(t1))

Analyze ==
    /\ pc = "analyze"
    /\ df' = Annotate(df)
    /\ pc' = "visualize"
    /\ UNCHANGED <<inputs, page, shown, peaks, summary, export>>

\* ------------------------------------------------------------ visualisation
RECURSIVE Unique(_)
Unique(s) ==
    IF s = <<>> THEN <<>>
    ELSE LET r == Unique(Tail(s))
         IN  IF \E i \in DOMAIN r : r[i] = Head(s) THEN r ELSE <<Head(s)>> \o r

\* variant: repeated hour labels are merged
PeakHoursUnique(t) == Unique(Loc(t.Peak, t.Hour))

PeakHours(t) == Loc(t.Peak, t.Hour)

Visualize ==
    /\ pc = "visualize"
    /\ shown' = {df}
    /\ peaks' = {PeakHours(df)}
    /\ page' = page \cup {"dataframe", "line_chart"}
                    \cup (IF PeakHours(df) # <<>>
                          THEN {"peaks", "peaks_hint"}
                          ELSE {"no_peaks"})
    /\ pc' = "economy"
    /\ UNCHANGED <<inputs, df, summary, export>>

\* ------------------------------------------------------------------ savings
\* variant: the ratio is not scaled to a percentage
PercentUnscaled(economy, total_cost) ==
    IF total_cost > 0 THEN Frac(economy, total_cost) ELSE <<0, 1>>

Percent(economy, total_cost) ==
    IF total_cost > 0 THEN Frac(economy * 100, total_cost) ELSE <<0, 1>>

\* variant: the two peak terms carry the wrong signs
OptimizedCostSwapped(total_cost, peak_kwh, t, night_tarif) ==
    total_cost + peak_kwh * t - peak_kwh * night_tarif

OptimizedCost(total_cost, peak_kwh, t, night_tarif) ==
    total_cost - peak_kwh * t + peak_kwh * night_tarif

\* variant: the peak energy is summed over every record
PeakKwhAll(t) == SumSeq(t.Kwh)

PeakKwh(t) == SumSeq(Loc(t.Peak, t.Kwh))

Savings(t, rate) ==
    LET total_kwh      == SumSeq(t.Kwh)
        total_cost     == total_kwh * rate
        night_tarif    == (rate * NightNum) \div NightDen
        peak_kwh       == PeakKwh(t)
        optimized_cost == OptimizedCost(total_cost, peak_kwh, rate, night_tarif)
        economy        == total_cost - optimized_cost
    IN  [ total_kwh      |-> total_kwh,
          total_cost     |-> total_cost,
          night_tarif    |-> night_tarif,
          peak_kwh       |-> peak_kwh,
          optimized_cost |-> optimized_cost,
          economy        |-> economy,
          percent        |-> Percent(economy, total_cost) ]

MoreThan(p, n) == p[1] > n * p[2]

\* variant: a zero tariff is priced too
TarifEntered(t) == t >= 0

TarifPositive(t) == t > 0

Economy ==
    /\ pc = "economy"
    /\ IF TarifPositive(tarif)
       THEN LET s == Savings(df, tarif) IN
            /\ summary' = {s}
            /\ page' = page \cup {"metrics", "success"}
                            \cup (IF MoreThan(s.percent, 10) THEN {"tip"} ELSE {})
       ELSE /\ summary' = summary
            /\ page' = page
    /\ pc' = "download"
    /\ UNCHANGED <<inputs, df, shown, peaks, export>>

\* ----------------------------------------------------------------- download
Download ==
    /\ pc = "download"
    /\ export' = {df}
    /\ page' = page \cup {"download"}
    /\ pc' = "done"
    /\ UNCHANGED <<inputs, df, shown, peaks, summary>>

Next ==
    \/ NoFile
    \/ Generate
    \/ LoadFile
    \/ LoadError
    \/ Validate
    \/ Analyze
    \/ Visualize
    \/ Economy
    \/ Download

Spec == Init /\ [][Next]_vars

\* =================================================================== claims
Loaded ==
    /\ pc # "load"
    /\ uploaded = "none" => button
    /\ uploaded # "none" => readable

Analysed == pc \in {"visualize", "economy", "download", "done"}

Ended == pc \in {"stopped", "done"}

Rows == DOMAIN df.Kwh

NonNegative(col) == \A i \in DOMAIN col : col[i] >= 0

\* the positions of the records whose consumption exceeds 6.0 kWh
Above == {i \in Rows : df.Kwh[i] > 6 * KwhScale}

ErrorOnly == {"info", "load_error", "schema_error"}

\* C1: after classification every record's peak flag is TRUE exactly when its
\* consumption is strictly greater than 6.0 kWh; a record at exactly 6.0 is
\* not a peak, one just above it is.
C1_PeakIffAboveThreshold ==
    Analysed =>
        /\ DOMAIN df.Peak = Rows
        /\ \A i \in Rows :
            /\ df.Peak[i] = TRUE <=> df.Kwh[i] > 6 * KwhScale
            /\ df.Kwh[i] = 6 * KwhScale => df.Peak[i] = FALSE
            /\ df.Kwh[i] = 6 * KwhScale + 1 => df.Peak[i] = TRUE

C1_Witness ==
    /\ pc = "done"
    /\ \E i, j \in Rows :
        /\ df.Kwh[i] = 6 * KwhScale /\ df.Peak[i] = FALSE
        /\ df.Kwh[j] = 6 * KwhScale + 1 /\ df.Peak[j] = TRUE

\* C2: when the table obtained lacks the hour column, the consumption column
\* or both, the run halts with the schema error: the table stays as loaded
\* (no peak flag or recommendation is computed), and no table, peak list,
\* savings summary or export is ever produced.
C2_MissingColumnHalts ==
    (Loaded /\ ~({"Hour", "Kwh"} \subseteq DOMAIN Source)) =>
        /\ pc \in {"validate", "stopped"}
        /\ pc = "stopped" => "schema_error" \in page
        /\ df = Source
        /\ shown = {} /\ peaks = {} /\ summary = {} /\ export = {}
        /\ page \subseteq ErrorOnly

C2_Witness ==
    /\ pc = "stopped"
    /\ "schema_error" \in page
    /\ DOMAIN df = {"Kwh"}
    /\ Len(df.Kwh) > 0
    /\ shown = {} /\ export = {}

C4_OptimizedNotAboveTotal ==
    \A s \in summary :
        /\ tarif >= 0
        /\ s.optimized_cost <= s.total_cost
        /\ s.total_cost - s.optimized_cost >= 0
        /\ s.economy >= 0

C4_Witness ==
    /\ pc = "done"
    /\ \E s \in summary : s.peak_kwh > 0 /\ s.optimized_cost < s.total_cost
    /\ \E i \in Rows : df.Kwh[i] <= 0

\* C5: for tariff > 0, savings equals peakKwh * (tariff - nightTariff), with
\* nightTariff = 0.8 * tariff, optimizedCost the total cost with the peak
\* energy re-priced, and peakKwh the consumption summed over exactly the
\* records flagged as peaks.
C5_SavingsIdentity ==
    \A s \in summary :
        LET pk == SumSeq([i \in Rows |-> IF df.Peak[i] THEN df.Kwh[i] ELSE 0])
        IN  /\ tarif > 0
            /\ s.peak_kwh = pk
            /\ 10 * s.night_tarif = 8 * tarif
            /\ s.optimized_cost = s.total_cost - pk * tarif + pk * s.night_tarif
            /\ s.economy = s.total_cost - s.optimized_cost
            /\ s.economy = pk * (tarif - s.night_tarif)

C5_Witness ==
    /\ pc = "done"
    /\ \E i, j \in Rows : df.Peak[i] /\ ~df.Peak[j] /\ df.Kwh[j] # 0
    /\ \E s \in summary : s.economy > 0 /\ s.peak_kwh < s.total_kwh

\* C6: over non-negative consumption values, savingsPercent is 0 whenever
\* totalCost is 0 and savings/totalCost*100 otherwise; an all-zero table with
\* a positive tariff yields 0.
C6_PercentGuarded ==
    \A s \in summary :
        NonNegative(df.Kwh) =>
            /\ s.total_cost = SumSeq(df.Kwh) * tarif
            /\ s.percent[2] > 0
            /\ s.total_cost = 0 => s.percent = <<0, 1>>
            /\ s.total_cost # 0 =>
                LET k == s.total_cost \div s.percent[2]
                IN  /\ k >= 1
                    /\ k * s.percent[2] = s.total_cost
                    /\ k * s.percent[1] = s.economy * 100

C6_Witness ==
    /\ pc = "done" /\ tarif > 0
    /\ Len(df.Kwh) > 0
    /\ \A i \in Rows : df.Kwh[i] = 0
    /\ \E s \in summary : s.total_cost = 0 /\ s.percent = <<0, 1>>

\* C7: after classification a record's recommendation is non-empty exactly
\* when its peak flag is TRUE: peak records carry the shift-load text, the
\* others the empty string.
C7_RecommendationIffPeak ==
    Analysed =>
        /\ DOMAIN df.Rec = Rows
        /\ \A i \in Rows :
            /\ df.Rec[i] # "" <=> df.Peak[i] = TRUE
            /\ df.Peak[i] = TRUE => df.Rec[i] = "shift load to night"
            /\ df.Peak[i] = FALSE => df.Rec[i] = ""

C7_Witness ==
    /\ pc = "done"
    /\ \E i, j \in Rows :
        /\ df.Peak[i] /\ df.Rec[i] = "shift load to night"
        /\ ~df.Peak[j] /\ df.Rec[j] = ""

FullyAnnotated(t) ==
    /\ {"Hour", "Kwh", "Peak", "Rec"} \subseteq DOMAIN t
    /\ DOMAIN t.Peak = DOMAIN t.Kwh
    /\ DOMAIN t.Rec = DOMAIN t.Kwh

NothingShown ==
    /\ shown = {} /\ peaks = {} /\ summary = {} /\ export = {}
    /\ page \subseteq ErrorOnly

C9_Original ==
    (Loaded /\ pc = "done" /\ Rows # {} /\ NonNegative(df.Kwh)) => df = Source

\* C9 amended: the analysis keeps every record, the record order and the
\* hour and consumption values (and any other loaded column), but it does
\* change the table in place: the peak flag and recommendation columns are
\* added to it, or overwritten when the loaded table already had them.
C9_RecordsKeptColumnsAdded ==
    Loaded =>
        /\ \A c \in DOMAIN Source \ {"Peak", "Rec"} :
            c \in DOMAIN df /\ df[c] = Source[c]
        /\ DOMAIN Source \subseteq DOMAIN df
        /\ DOMAIN df \subseteq DOMAIN Source \cup {"Peak", "Rec"}
        /\ Analysed => DOMAIN df = DOMAIN Source \cup {"Peak", "Rec"}

C9_Witness ==
    /\ pc = "done"
    /\ "Note" \in DOMAIN Source
    /\ Len(df.Kwh) = MaxRows
    /\ df.Note = Source.Note
    /\ "Peak" \in DOMAIN df /\ "Peak" \notin DOMAIN Source

\* C10: the peak hour list holds, in table order, the hour label of every
\* record whose consumption exceeds 6.0 kWh, one entry per such record
\* (repeated labels kept), and is empty exactly when there is none.
C10_PeakListOrdered ==
    \A p \in peaks :
        /\ Len(p) = Cardinality(Above)
        /\ \A i \in Above : p[Cardinality({j \in Above : j <= i})] = df.Hour[i]
        /\ p = <<>> <=> Above = {}
        /\ p # <<>> <=> "peaks" \in page

C10_Witness ==
    /\ pc = "done"
    /\ Len(df.Kwh) = 3
    /\ df.Kwh[2] <= 6 * KwhScale
    /\ peaks = {<<18, 18>>}

====
